---- MODULE Spec2Model ----
(***************************************************************************)
(* A state-machine model of the job scheduler of scripts/scheduler.py and  *)
(* of the job life cycle of scripts/job.py.                                *)
(*                                                                         *)
(* Everything a thread executes synchronously (a caller's schedule(), a    *)
(* job's run() with the handlers it invokes, ...) is one operator on a     *)
(* record `s` of all mutable fields; python exceptions travel in s.exc.    *)
(* The points where another thread can get in between are the places where *)
(* a delay thread, a timeout thread or a Timer thread has done its check   *)
(* and has not acted yet: those are separate actions.                      *)
(***************************************************************************)
EXTENDS Integers, Sequences, FiniteSets, TLC

\* ------------------------------------------------------------- bounds
Jobs == {"a", "b", "c"}

PoolSize == 3     \* largest Scheduler(pool_size); the smallest is one less
MaxTries == 2     \* largest `tries` a job is constructed with
MaxRuns == 2      \* Scheduler.run() is called at most this often
MaxClock == 1     \* the discrete clock runs 0..MaxClock
MaxEpisodes == 2  \* a job on its own is run or restarted at most this often
MaxTimerRuns == 3 \* Scheduler.run() is called at most this often where only timers run
MaxCallbacks == 2 \* on_cancel is called at most this often on a token

\* ------------------------------------------------------------- constants of job.py
TIMEOUT_ERROR == "Timeout"
NO_TRIES_LEFT_ERROR == "No tries left"
MANUALLY_FAILED_ERROR == "Manually failed"
INTERNAL_JOB_ERROR == "Internal job error"

PENDING == "PENDING"
RUNNING == "RUNNING"
COMPLETED == "COMPLETED"
FAILED == "FAILED"
State == {PENDING, RUNNING, COMPLETED, FAILED}

None == "None"
WORKER_RESULT == "worker result"     \* what a worker that returns hands back
NoExc == "none"

UserHandlers == {"h1"}     \* the handlers a caller registers; the code treats all alike
TokenThreads == {"t1", "t2", "t3"}    \* the threads that share one CancellationToken
Callbacks == 1..MaxCallbacks         \* the callbacks they register, in the order of their calls

VARIABLES
    cfg,        \* per job: kind, tries, worker, max_working_time, start_at, dependencies
    pool_size,  \* Scheduler._pool_size
    pending, running, completed, failed,   \* Scheduler._pending ... _failed
    token,      \* Scheduler._cancellation_token: 0 is None, n the token of the n-th run()
    tokCan,     \* the master tokens that were cancelled
    ntok,       \* master tokens created so far
    timers,     \* live threading.Timer threads of __schedule_job_start
    now,        \* the clock
    state, result, tries,   \* Job._state, _result, _tries
    coro,       \* Job._coroutine: "none", "ready" (primed), "used" (sent once)
    nsub,       \* scheduler closures (on_job_complete) in Job._on_complete_handlers
    usub,       \* other handlers in Job._on_complete_handlers
    ep,         \* run() calls of the job so far: the episode, and the identity of its tokens
    ttok, tcan, \* Job._timeout_cancellation_token (0 is None), cancelled timeout tokens
    wtok, wcan, \* SimpleAsyncJob._task_cancellation_token (0 is None), cancelled task tokens
    workers,    \* live delay threads of SimpleAsyncJob._run
    guards,     \* live timeout threads of Job.__start_timeout
    calls,      \* how often the job's worker function was called
    notified,   \* _notify_complete/_notify_error notifications in the job's current episode
    hcalls,     \* invocations of each user handler
    reg,        \* each user handler's registration: "none", "live", "removed", "fired",
                \* or "twice" (invoked again on a fired one), "late" (invoked on a removed one)
    obs,        \* what the last step did: operation, job, exception, phase changes, ...
    tk          \* a CancellationToken with the threads that call it (utils.py)

vars == <<cfg, pool_size, pending, running, completed, failed, token, tokCan, ntok, timers, now,
          state, result, tries, coro, nsub, usub, ep, ttok, tcan, wtok, wcan,
          workers, guards, calls, notified, hcalls, reg, obs, tk>>

\* ------------------------------------------------------------- the record operators work on
NoCount == [j \in Jobs |-> 0]

Cur(op, j, order) ==
    [pending |-> pending, running |-> running, completed |-> completed, failed |-> failed,
     token |-> token, tokCan |-> tokCan, ntok |-> ntok, timers |-> timers,
     state |-> state, result |-> result, tries |-> tries, coro |-> coro,
     nsub |-> nsub, usub |-> usub, ep |-> ep, ttok |-> ttok, tcan |-> tcan,
     wtok |-> wtok, wcan |-> wcan, workers |-> workers, guards |-> guards,
     calls |-> calls, notified |-> notified, hcalls |-> hcalls, reg |-> reg,
     exc |-> NoExc,            \* the exception in flight
     ord |-> order,            \* the order in which this step's set iterations yield jobs
     op |-> op, job |-> j,
     steps |-> {},             \* phase changes <<from, to>> made in this step
     badStart |-> {},          \* jobs __start_job started with a dependency not in completed
     twice |-> {},             \* jobs __start_job started while they were in running
     early |-> {},             \* jobs make_failed()ed with no dependency in failed
     marks |-> NoCount,        \* make_failed() calls on each job in this step
     fadds |-> NoCount]        \* additions of each job's id to failed in this step

Raise(s, e) == [s EXCEPT !.exc = e]
Ok(s) == s.exc = NoExc

\* the jobs of set S in the order this step iterates sets
InOrder(s, S) == SelectSeq(s.ord, LAMBDA x : x \in S)

\* ------------------------------------------------------------- job.py
RECURSIVE JobRun(_, _), NotifyComplete(_, _, _), NotifyError(_, _, _),
          NotifyAllSubscribers(_, _, _), InvokeClosures(_, _, _), OnJobComplete(_, _),
          OnJobCompletedSuccessfully(_, _), OnJobFailed(_, _), StartJobIfCan(_, _),
          StartJob(_, _), AutoFailJobsWithDependency(_, _), JobRestart(_, _),
          MakeFailed(_, _), RunLoop(_, _), DependentsLoop(_, _, _), MarkLoop(_, _, _, _),
          FailLoop(_, _), StopLoop(_, _)

\* `except (Exception,)` in Job.run: the exceptions of this program all derive from
\* Exception (exceptions.py declares the three of the scheduler)
CaughtByRun(e) == e # NoExc

\* Job.can_be_started
CanBeStarted(s, j) == s.tries[j] > 0

\* CancellationToken.is_active of the timeout token of episode e (complete() is never called)
TimeoutTokenActive(s, j, e) == e \notin s.tcan[j]

\* CancellationToken.is_active of the task token of episode e
TaskTokenActive(s, j, e) == e \notin s.wcan[j]

\* SimpleAsyncJob.__stop_waiting_for_run. A delay thread that still sleeps when its
\* token is cancelled can only wake up and return (job.py:244): it ends here
StopWaitingForRun(s, j) ==
    IF s.wtok[j] = 0 THEN s
    ELSE [s EXCEPT !.wcan[j] = @ \cup {s.wtok[j]}, !.wtok[j] = 0,
                   !.workers = {w \in @ : ~(w.job = j /\ w.ep = s.wtok[j] /\ w.pc = "sleep")}]

\* Job._set_state, and SimpleAsyncJob._set_state
SetState(s, j, new) ==
    LET s1 == IF cfg[j].kind = "async" THEN StopWaitingForRun(s, j) ELSE s
    IN [s1 EXCEPT !.state[j] = new, !.steps = @ \cup {<<s.state[j], new>>}]

\* Job.__stop_timeout. A timeout thread that still sleeps when its token is cancelled
\* can only wake up and return (job.py:190): it ends here
StopTimeout(s, j) ==
    IF s.ttok[j] = 0 THEN s
    ELSE [s EXCEPT !.tcan[j] = @ \cup {s.ttok[j]}, !.ttok[j] = 0,
                   !.guards = {g \in @ : ~(g.job = j /\ g.ep = s.ttok[j] /\ g.pc = "sleep")}]

\* a variant whose generator takes any number of sends
CoroutineSendAgain(s, j, v) ==
    IF s.coro[j] = "none" THEN Raise(s, "AttributeError") ELSE [s EXCEPT !.result[j] = v]

\* self._result = self._coroutine.send(v): the generator of __start_coroutine yields
\* what it is sent once; a second send ends it (StopIteration)
CoroutineSend(s, j, v) ==
    IF s.coro[j] = "ready" THEN [s EXCEPT !.result[j] = v, !.coro[j] = "used"]
    ELSE IF s.coro[j] = "used" THEN Raise(s, "StopIteration")
    ELSE Raise(s, "AttributeError")

\* the job's worker function: returns, raises, or raises on its first call only
WorkerRaises(s, j) ==
    \/ cfg[j].worker = "raise"
    \/ cfg[j].worker = "once" /\ s.calls[j] = 0

CallWorker(s, j) ==
    LET s1 == [s EXCEPT !.calls[j] = @ + 1]
    IN IF WorkerRaises(s, j) THEN Raise(s1, "Exception") ELSE s1

\* Job.__notify_all_subscribers, from `self._on_complete_handlers.clear()` on, with
\* the copy made just before: n scheduler closures and the user handlers u
InvokeClosures(s, j, n) ==
    IF n = 0 \/ ~Ok(s) THEN s
    ELSE InvokeClosures(OnJobComplete(s, j), j, n - 1)

\* what an invocation makes of a handler's registration
Invoked(r) ==
    IF r = "live" THEN "fired"
    ELSE IF r = "removed" \/ r = "late" THEN "late"
    ELSE "twice"

NotifyAllSubscribers(s, j, copy) ==
    LET s1 == [s EXCEPT !.nsub[j] = 0, !.usub[j] = {},
                        !.hcalls = [h \in UserHandlers |->
                                      IF h \in copy.u THEN @[h] + 1 ELSE @[h]],
                        !.reg = [h \in UserHandlers |->
                                   IF h \notin copy.u THEN @[h] ELSE Invoked(@[h])]]
    IN InvokeClosures(s1, j, copy.n)

HandlersCopy(s, j) == [n |-> s.nsub[j], u |-> s.usub[j]]

\* Job._notify_complete after its check of the phase, up to the copy of the handlers
NotifyCompleteBody(s, j, res) ==
    LET s1 == CoroutineSend(StopTimeout(s, j), j, res)
    IN IF ~Ok(s1) THEN s1
       ELSE [SetState(s1, j, COMPLETED) EXCEPT !.notified[j] = @ + 1]

\* Job._notify_error after its check of the phase, up to the copy of the handlers
NotifyErrorBody(s, j, err) ==
    LET s0 == StopTimeout(s, j)
        s1 == CoroutineSend([s0 EXCEPT !.tries[j] = @ - 1], j, err)
    IN IF ~Ok(s1) THEN s1
       ELSE [SetState(s1, j, FAILED) EXCEPT !.notified[j] = @ + 1]

\* Job._notify_complete
NotifyComplete(s, j, res) ==
    IF ~Ok(s) THEN s
    ELSE IF s.state[j] # RUNNING THEN Raise(s, "IncorrectJobState")
    ELSE LET s1 == NotifyCompleteBody(s, j, res)
         IN IF ~Ok(s1) THEN s1 ELSE NotifyAllSubscribers(s1, j, HandlersCopy(s1, j))

\* Job._notify_error
NotifyError(s, j, err) ==
    IF ~Ok(s) THEN s
    ELSE IF s.state[j] # RUNNING THEN Raise(s, "IncorrectJobState")
    ELSE LET s1 == NotifyErrorBody(s, j, err)
         IN IF ~Ok(s1) THEN s1 ELSE NotifyAllSubscribers(s1, j, HandlersCopy(s1, j))

\* SimpleSyncJob._run, and SimpleAsyncJob._run which starts the delay thread
DoRun(s, j, e) ==
    IF cfg[j].kind = "async"
    THEN [s EXCEPT !.wtok[j] = e,
                   !.workers = @ \cup {[job |-> j, ep |-> e, pc |-> "sleep", n |-> 0, u |-> {}]}]
    ELSE LET s1 == CallWorker(s, j)
         IN IF ~Ok(s1) THEN s1 ELSE NotifyComplete(s1, j, WORKER_RESULT)

\* Job.__start_timeout
StartTimeout(s, j, e) ==
    IF ~Ok(s) THEN s
    ELSE IF cfg[j].max_working_time <= 0 \/ ~TimeoutTokenActive(s, j, e) THEN s
    ELSE [s EXCEPT !.guards = @ \cup {[job |-> j, ep |-> e, pc |-> "sleep", n |-> 0, u |-> {}]}]

\* Job.run
JobRun(s, j) ==
    IF ~Ok(s) THEN s
    ELSE IF s.state[j] # PENDING THEN Raise(s, "IncorrectJobState")
    ELSE LET e == s.ep[j] + 1
             s1 == [s EXCEPT !.ep[j] = e, !.ttok[j] = e, !.notified[j] = 0]
             s2 == SetState(s1, j, RUNNING)
             s3 == [s2 EXCEPT !.result[j] = None, !.coro[j] = "ready"]
             body == IF ~CanBeStarted(s3, j)
                     THEN NotifyError(s3, j, NO_TRIES_LEFT_ERROR)
                     ELSE StartTimeout(DoRun(s3, j, e), j, e)
         IN IF CaughtByRun(body.exc)
            THEN NotifyError([body EXCEPT !.exc = NoExc], j, INTERNAL_JOB_ERROR)
            ELSE body

\* a variant without the check of the phase
MakeFailedUnchecked(s, j) ==
    IF ~Ok(s) THEN s
    ELSE LET s1 == [s EXCEPT !.result[j] = MANUALLY_FAILED_ERROR]
             s2 == SetState(s1, j, FAILED)
         IN NotifyAllSubscribers(s2, j, HandlersCopy(s2, j))

\* Job.make_failed
MakeFailed(s, j) ==
    IF ~Ok(s) THEN s
    ELSE IF s.state[j] # PENDING
    THEN Raise([s EXCEPT !.marks[j] = @ + 1], "IncorrectJobState")
    ELSE LET s1 == [s EXCEPT !.result[j] = MANUALLY_FAILED_ERROR, !.marks[j] = @ + 1,
                             !.early = IF cfg[j].dependencies \cap s.failed = {}
                                       THEN @ \cup {j} ELSE @]
             s2 == SetState(s1, j, FAILED)
         IN NotifyAllSubscribers(s2, j, HandlersCopy(s2, j))

\* a variant without the check of the phase
JobStopUnchecked(s, j) ==
    IF ~Ok(s) THEN s
    ELSE SetState([StopTimeout(s, j) EXCEPT !.result[j] = None], j, PENDING)

\* Job.stop
JobStop(s, j) ==
    IF ~Ok(s) THEN s
    ELSE IF s.state[j] # RUNNING THEN Raise(s, "IncorrectJobState")
    ELSE SetState([StopTimeout(s, j) EXCEPT !.result[j] = None], j, PENDING)

\* Job.restart
JobRestart(s, j) ==
    IF ~Ok(s) THEN s
    ELSE IF s.state[j] # COMPLETED /\ s.state[j] # FAILED THEN Raise(s, "IncorrectJobState")
    ELSE JobRun(SetState([s EXCEPT !.result[j] = None], j, PENDING), j)

\* Job.add_complete_handler, remove_complete_handler, remove_all_complete_handlers
AddCompleteHandler(s, j, h) ==
    [s EXCEPT !.usub[j] = @ \cup {h},
              !.reg[h] = IF h \in s.usub[j] THEN @ ELSE "live"]

RemoveCompleteHandler(s, j, h) ==
    IF h \notin s.usub[j] THEN Raise(s, "KeyError")
    ELSE [s EXCEPT !.usub[j] = @ \ {h}, !.reg[h] = "removed"]

RemoveAllCompleteHandlers(s, j) ==
    [s EXCEPT !.nsub[j] = 0, !.usub[j] = {},
              !.reg = [h \in UserHandlers |-> IF h \in s.usub[j] THEN "removed" ELSE @[h]]]

\* ------------------------------------------------------------- scheduler.py
\* Scheduler.total_jobs_amount
TotalJobsAmount(s) == Cardinality(s.pending) + Cardinality(s.running)

\* Scheduler.is_running
IsRunning(s) == s.token # 0

\* a variant that takes every job as due
DueWhateverStartAt(s, j) == TRUE

\* Scheduler.__is_job_available_by_time
IsJobAvailableByTime(s, j) == cfg[j].start_at <= now

\* a variant that lets a job start whatever its dependencies
AvailableWhateverDependencies(s, j) == TRUE

\* Scheduler.__is_job_available_by_dependencies
IsJobAvailableByDependencies(s, j) == \A d \in cfg[j].dependencies : d \in s.completed

\* Scheduler.__schedule_job_start: a Timer thread that holds the current master token
ScheduleJobStart(s, j, tok) ==
    [s EXCEPT !.timers = @ \cup {[job |-> j, tok |-> tok, pc |-> "armed"]}]

\* a variant that leaves the job in pending when it starts it
StartJobKeepsPending(s, j) ==
    IF ~Ok(s) THEN s
    ELSE LET s1 == [s EXCEPT !.nsub[j] = @ + 1]
         IN IF j \notin s1.pending THEN Raise(s1, "KeyError")
            ELSE JobRun([s1 EXCEPT !.running = @ \cup {j},
                                   !.badStart = IF cfg[j].dependencies \subseteq s.completed
                                                THEN @ ELSE @ \cup {j},
                                   !.twice = IF j \in s.running THEN @ \cup {j} ELSE @], j)

\* Scheduler.__start_job
StartJob(s, j) ==
    IF ~Ok(s) THEN s
    ELSE LET s1 == [s EXCEPT !.nsub[j] = @ + 1]      \* job.add_complete_handler(on_job_complete)
         IN IF j \notin s1.pending THEN Raise(s1, "KeyError")    \* self._pending.remove(job)
            ELSE JobRun([s1 EXCEPT !.pending = @ \ {j},
                                   !.running = @ \cup {j},
                                   !.badStart = IF cfg[j].dependencies \subseteq s.completed
                                                THEN @ ELSE @ \cup {j},
                                   !.twice = IF j \in s.running THEN @ \cup {j} ELSE @], j)

\* Scheduler.__start_job_if_can
StartJobIfCan(s, j) ==
    IF ~Ok(s) THEN s
    ELSE IF ~IsRunning(s) THEN s
    ELSE IF ~IsJobAvailableByDependencies(s, j) THEN s
    ELSE IF ~IsJobAvailableByTime(s, j) THEN ScheduleJobStart(s, j, s.token)
    ELSE StartJob(s, j)

\* the closure on_job_complete of Scheduler.__start_job
OnJobComplete(s, j) ==
    IF ~Ok(s) THEN s
    ELSE IF s.state[j] = COMPLETED THEN OnJobCompletedSuccessfully(s, j)
    ELSE IF s.state[j] = FAILED THEN OnJobFailed(s, j)
    ELSE Raise(s, "IncorrectJobState")

\* the loop of Scheduler.__on_job_completed_successfully over the copy of pending
DependentsLoop(s, j, seq) ==
    IF seq = <<>> \/ ~Ok(s) THEN s
    ELSE DependentsLoop(IF j \in cfg[Head(seq)].dependencies
                        THEN StartJobIfCan(s, Head(seq)) ELSE s, j, Tail(seq))

\* a variant that forgets self._running.remove(job)
CompletedStaysRunning(s, j) ==
    IF ~Ok(s) THEN s
    ELSE IF j \notin s.running THEN Raise(s, "KeyError")
    ELSE LET s1 == [s EXCEPT !.completed = @ \cup {j}]
         IN DependentsLoop(s1, j, InOrder(s1, s1.pending))

\* Scheduler.__on_job_completed_successfully
OnJobCompletedSuccessfully(s, j) ==
    IF ~Ok(s) THEN s
    ELSE IF j \notin s.running THEN Raise(s, "KeyError")
    ELSE LET s1 == [s EXCEPT !.running = @ \ {j}, !.completed = @ \cup {j}]
         IN DependentsLoop(s1, j, InOrder(s1, s1.pending))

\* a variant that marks a dependent whatever its phase
MarkLoopWhateverPhase(s, id, seq, marked) ==
    IF ~Ok(s) THEN [s |-> s, marked |-> marked]
    ELSE IF seq = <<>> THEN [s |-> s, marked |-> marked]
    ELSE LET p == Head(seq)
         IN IF id \in cfg[p].dependencies
            THEN LET s1 == MakeFailedUnchecked([s EXCEPT !.marks[p] = @ + 1], p)
                 IN MarkLoop(s1, id, Tail(seq), Append(marked, p))
            ELSE MarkLoop(s, id, Tail(seq), marked)

\* the first loop of Scheduler.__auto_fail_jobs_with_dependency, over pending itself:
\* a set that changes size under its iterator raises RuntimeError
MarkLoop(s, id, seq, marked) ==
    IF ~Ok(s) THEN [s |-> s, marked |-> marked]
    ELSE IF seq = <<>> THEN [s |-> s, marked |-> marked]
    ELSE LET p == Head(seq)
         IN IF id \in cfg[p].dependencies /\ s.state[p] # FAILED
            THEN LET s1 == MakeFailed(s, p)
                 IN IF ~Ok(s1) THEN [s |-> s1, marked |-> marked]
                    ELSE IF Cardinality(s1.pending) # Cardinality(s.pending)
                    THEN [s |-> Raise(s1, "RuntimeError"), marked |-> Append(marked, p)]
                    ELSE MarkLoop(s1, id, Tail(seq), Append(marked, p))
            ELSE MarkLoop(s, id, Tail(seq), marked)

\* the second loop of Scheduler.__auto_fail_jobs_with_dependency
FailLoop(s, marked) ==
    IF marked = <<>> \/ ~Ok(s) THEN s
    ELSE FailLoop(OnJobFailed(s, Head(marked)), Tail(marked))

\* Scheduler.__auto_fail_jobs_with_dependency
AutoFailJobsWithDependency(s, id) ==
    LET r == MarkLoop(s, id, InOrder(s, s.pending), <<>>)
    IN FailLoop(r.s, r.marked)

\* a variant that forgets self.__auto_fail_jobs_with_dependency(job.id)
FailedWithoutCascade(s, j) ==
    IF ~Ok(s) THEN s
    ELSE LET is_auto_fail == j \in s.pending
         IN IF CanBeStarted(s, j) /\ ~is_auto_fail THEN JobRestart(s, j)
            ELSE IF ~is_auto_fail /\ j \notin s.running THEN Raise(s, "KeyError")
            ELSE [s EXCEPT !.pending = IF is_auto_fail THEN @ \ {j} ELSE @,
                           !.running = IF is_auto_fail THEN @ ELSE @ \ {j},
                           !.failed = @ \cup {j}]

\* a variant that restarts a job with tries left even when it came from pending
RetriedFromPending(s, j) ==
    IF ~Ok(s) THEN s
    ELSE LET is_auto_fail == j \in s.pending
         IN IF CanBeStarted(s, j) THEN JobRestart(s, j)
            ELSE IF ~is_auto_fail /\ j \notin s.running THEN Raise(s, "KeyError")
            ELSE AutoFailJobsWithDependency(
                     [s EXCEPT !.pending = IF is_auto_fail THEN @ \ {j} ELSE @,
                               !.running = IF is_auto_fail THEN @ ELSE @ \ {j},
                               !.failed = @ \cup {j}], j)

\* Scheduler.__on_job_failed
OnJobFailed(s, j) ==
    IF ~Ok(s) THEN s
    ELSE LET is_auto_fail == j \in s.pending
         IN IF CanBeStarted(s, j) /\ ~is_auto_fail THEN JobRestart(s, j)
            ELSE IF ~is_auto_fail /\ j \notin s.running THEN Raise(s, "KeyError")
            ELSE AutoFailJobsWithDependency(
                     [s EXCEPT !.pending = IF is_auto_fail THEN @ \ {j} ELSE @,
                               !.running = IF is_auto_fail THEN @ ELSE @ \ {j},
                               !.failed = @ \cup {j}, !.fadds[j] = @ + 1], j)

\* what schedule does once it has admitted the job
Admit(s, j) ==
    LET s1 == [s EXCEPT !.pending = @ \cup {j}]
    IN IF cfg[j].dependencies \cap s1.failed # {}
       THEN OnJobFailed(MakeFailed(s1, j), j)
       ELSE StartJobIfCan(s1, j)

IsKnown(s, j) == j \in s.pending \/ j \in s.running \/ j \in s.completed \/ j \in s.failed

\* a variant that compares with > where schedule has >=
ScheduleOneTooMany(s, j) ==
    IF TotalJobsAmount(s) > pool_size THEN Raise(s, "PoolSize")
    ELSE IF IsKnown(s, j) THEN Raise(s, "JobTwiceScheduling")
    ELSE Admit(s, j)

\* a variant that looks for the job before it looks at the pool
ScheduleKnownFirst(s, j) ==
    IF IsKnown(s, j) THEN Raise(s, "JobTwiceScheduling")
    ELSE IF TotalJobsAmount(s) >= pool_size THEN Raise(s, "PoolSize")
    ELSE Admit(s, j)

\* a variant that adds the job to pending before it looks at the pool
SchedulePendingFirst(s, j) ==
    IF IsKnown(s, j) /\ TotalJobsAmount(s) < pool_size THEN Raise(s, "JobTwiceScheduling")
    ELSE IF TotalJobsAmount(s) >= pool_size
    THEN Raise([s EXCEPT !.pending = @ \cup {j}], "PoolSize")
    ELSE Admit(s, j)

\* Scheduler.schedule
Schedule(s, j) ==
    IF TotalJobsAmount(s) >= pool_size THEN Raise(s, "PoolSize")
    ELSE IF IsKnown(s, j) THEN Raise(s, "JobTwiceScheduling")
    ELSE Admit(s, j)

\* the loop of Scheduler.run over the copy of pending
RunLoop(s, seq) ==
    IF seq = <<>> \/ ~Ok(s) THEN s
    ELSE RunLoop(IF Head(seq) \in s.pending THEN StartJobIfCan(s, Head(seq)) ELSE s, Tail(seq))

\* Scheduler.run
SchedulerRun(s) ==
    LET s1 == [s EXCEPT !.ntok = @ + 1, !.token = s.ntok + 1]
    IN RunLoop(s1, InOrder(s1, s1.pending))

\* the loop of Scheduler.stop over the copy of running
StopLoop(s, seq) ==
    IF seq = <<>> \/ ~Ok(s) THEN s
    ELSE LET j == Head(seq)
             s1 == JobStop(RemoveAllCompleteHandlers(s, j), j)
         IN StopLoop(IF Ok(s1) THEN [s1 EXCEPT !.pending = @ \cup {j}] ELSE s1, Tail(seq))

\* Scheduler.stop
SchedulerStop(s) ==
    IF s.token = 0 THEN Raise(s, "AttributeError")     \* None has no cancel()
    ELSE LET s1 == [s EXCEPT !.tokCan = @ \cup {s.token}, !.token = 0, !.running = {},
                             \* a Timer that has not fired returns at scheduler.py:125
                             !.timers = {t \in @ : ~(t.tok = s.token /\ t.pc = "armed")}]
         IN StopLoop(s1, InOrder(s, s.running))

\* ------------------------------------------------------------- configurations
\* python iterates a set in an order the program does not control: every order of
\* the jobs a step can find in pending or running
OrdersOf(S) == {o \in [1..Cardinality(S) -> S] : \A x \in S : \E i \in DOMAIN o : o[i] = x}
Orders == OrdersOf(pending \cup running)

Job(kind, n, worker, mwt, at) ==
    [kind |-> kind, tries |-> n, worker |-> worker, max_working_time |-> mwt, start_at |-> at]

WithDeps(p, d) ==
    [kind |-> p.kind, tries |-> p.tries, worker |-> p.worker,
     max_working_time |-> p.max_working_time, start_at |-> p.start_at, dependencies |-> d]

\* dependency lists: none, a chain, a fan-out, a diamond
NoDeps == [a |-> {}, b |-> {}, c |-> {}]
Chain == [a |-> {}, b |-> {"a"}, c |-> {"b"}]
FanOut == [a |-> {}, b |-> {"a"}, c |-> {"a"}]
Diamond == [a |-> {}, b |-> {"a"}, c |-> {"a", "b"}]

Family(n, roots, pb, pc, graphs) ==
    {[pool_size |-> n,
      jobs |-> [a |-> WithDeps(r, g.a), b |-> WithDeps(pb, g.b), c |-> WithDeps(pc, g.c)]] :
        r \in roots, g \in graphs}

SyncOk == Job("sync", 1, "ok", 0, 0)
SyncLater == Job("sync", 1, "ok", 0, 1)
SyncRaise == Job("sync", 1, "raise", 0, 0)
AsyncOk == Job("async", 1, "ok", 0, 0)
AsyncTimeout == Job("async", 1, "ok", 1, 0)

\* the jobs a scheduler is given. Job a, on which the others may depend, is any of:
\* synchronous or delayed, with or without a timeout, a later start, retries, no tries,
\* a worker that returns, raises, or raises once
RootProfiles ==
    {SyncOk, SyncRaise, Job("sync", MaxTries, "raise", 0, 0),
     Job("sync", MaxTries, "once", 0, 0), Job("sync", 0, "ok", 0, 0), SyncLater,
     AsyncOk, AsyncTimeout, Job("async", MaxTries, "ok", 1, 0),
     Job("async", 1, "raise", 1, 0)}

\* ... with two synchronous jobs; a later start of b; two delayed jobs at once; and,
\* in a pool that holds all three, a chain and a diamond under a root that fails or not
Configs ==
    Family(PoolSize - 1, RootProfiles, SyncOk, SyncOk, {NoDeps, Chain, FanOut, Diamond})
    \cup Family(PoolSize - 1, {SyncOk, SyncRaise, AsyncOk}, SyncLater, SyncOk,
                {NoDeps, Chain, Diamond})
    \cup Family(PoolSize - 1, {SyncOk, AsyncOk, AsyncTimeout}, SyncOk, AsyncOk,
                {NoDeps, FanOut})
    \cup Family(PoolSize, {SyncOk, SyncRaise, Job("sync", MaxTries, "once", 0, 0), AsyncOk},
                SyncOk, SyncOk, {Chain, Diamond})
    \cup Family(PoolSize - 1, {SyncRaise}, Job("sync", MaxTries, "ok", 0, 0), SyncOk,
                {Chain, FanOut})

\* ------------------------------------------------------------- steps
NoObs == [op |-> "init", job |-> "-", exc |-> NoExc, steps |-> {}, badStart |-> {}, early |-> {},
          twice |-> {}, marks |-> NoCount, fadds |-> NoCount]

Commit(r) ==
    \E x \in {r} :      \* the outcome of the step, computed once
        /\ pending' = x.pending /\ running' = x.running
        /\ completed' = x.completed /\ failed' = x.failed
        /\ token' = x.token /\ tokCan' = x.tokCan /\ ntok' = x.ntok /\ timers' = x.timers
        /\ state' = x.state /\ result' = x.result /\ tries' = x.tries /\ coro' = x.coro
        /\ nsub' = x.nsub /\ usub' = x.usub /\ ep' = x.ep
        /\ ttok' = x.ttok /\ tcan' = x.tcan /\ wtok' = x.wtok /\ wcan' = x.wcan
        /\ workers' = x.workers /\ guards' = x.guards
        /\ calls' = x.calls /\ notified' = x.notified /\ hcalls' = x.hcalls /\ reg' = x.reg
        /\ obs' = [op |-> x.op, job |-> x.job, exc |-> x.exc, steps |-> x.steps,
                   badStart |-> x.badStart, early |-> x.early, twice |-> x.twice,
                   marks |-> x.marks, fadds |-> x.fadds]
        /\ UNCHANGED <<cfg, pool_size, now, tk>>

\* what a step leaves in obs: everything ("loud"), all but the phase changes and the
\* counts of the cascade ("sched"), or only that a thread ran ("quiet")
Observe(v, r) ==
    IF v = "loud" THEN r
    ELSE IF v = "sched" THEN [r EXCEPT !.steps = {}, !.marks = NoCount, !.fadds = NoCount]
    ELSE [r EXCEPT !.op = "thread", !.job = "-", !.exc = NoExc, !.steps = {},
                   !.marks = NoCount, !.fadds = NoCount]

\* CancellationToken.__init__, no thread in a call; count, by, regby, inv, rechecked,
\* seen and was record what the threads did
TokIdle == [pc |-> "idle", cb |-> 0, copy |-> <<>>, i |-> 0]

TokInit ==
    [is_canceled |-> FALSE, is_completed |-> FALSE,
     lock |-> "free",                              \* the holder of self._lock
     callbacks |-> <<>>,
     th |-> [t \in TokenThreads |-> TokIdle],       \* each thread's place in its call
     nreg |-> 0,                                   \* on_cancel calls so far
     count |-> [c \in Callbacks |-> 0],            \* invocations of each callback
     by |-> [c \in Callbacks |-> "-"],             \* the thread that invoked it last
     regby |-> [c \in Callbacks |-> "-"],          \* the thread that registered it
     inv |-> <<>>,                                 \* the callbacks cancel() invoked, in order
     rechecked |-> {},                             \* those found cancelled under the lock only
     seen |-> [t \in TokenThreads |-> "none"],     \* what is_active returned to the thread
     was |-> [t \in TokenThreads |-> FALSE]]       \* the token was active when it was asked

InitWith(c, n) ==
    /\ cfg = c /\ pool_size = n
    /\ pending = {} /\ running = {} /\ completed = {} /\ failed = {}
    /\ token = 0 /\ tokCan = {} /\ ntok = 0 /\ timers = {}
    /\ now = 0
    /\ state = [j \in Jobs |-> PENDING]
    /\ result = [j \in Jobs |-> None]
    /\ tries = [j \in Jobs |-> c[j].tries]
    /\ coro = [j \in Jobs |-> "none"]
    /\ nsub = [j \in Jobs |-> 0]
    /\ usub = [j \in Jobs |-> {}]
    /\ ep = [j \in Jobs |-> 0]
    /\ ttok = [j \in Jobs |-> 0] /\ tcan = [j \in Jobs |-> {}]
    /\ wtok = [j \in Jobs |-> 0] /\ wcan = [j \in Jobs |-> {}]
    /\ workers = {} /\ guards = {}
    /\ calls = [j \in Jobs |-> 0]
    /\ notified = [j \in Jobs |-> 0]
    /\ hcalls = [h \in UserHandlers |-> 0]
    /\ reg = [h \in UserHandlers |-> "none"]
    /\ obs = NoObs
    /\ tk = TokInit

Init == \E c \in Configs : InitWith(c.jobs, c.pool_size)

\* ---- the caller's thread
DoSchedule(j, order) == Commit(Observe("sched", Schedule(Cur("schedule", j, order), j)))
OrdersWith(j) == OrdersOf(pending \cup running \cup {j})

DoSchedulerRun(order) ==
    /\ ntok < MaxRuns
    /\ Commit(Observe("sched", SchedulerRun(Cur("run", "-", order))))

DoSchedulerStop(order) == Commit(Observe("sched", SchedulerStop(Cur("stop", "-", order))))

\* time passes; the program reads the clock only to compare it with a start_at
Tick ==
    /\ now < MaxClock
    /\ \E j \in Jobs : cfg[j].start_at > now
    /\ now' = now + 1
    /\ obs' = [NoObs EXCEPT !.op = "tick"]
    /\ UNCHANGED <<cfg, pool_size, pending, running, completed, failed, token, tokCan, ntok, timers,
                   state, result, tries, coro, nsub, usub, ep, ttok, tcan, wtok, wcan,
                   workers, guards, calls, notified, hcalls, reg, tk>>

\* ---- the Timer thread of __schedule_job_start: task() up to its two checks ...
TimerFire(t, v) ==
    /\ t \in timers /\ t.pc = "armed"
    /\ cfg[t.job].start_at <= now
    /\ LET s == Cur("timer_fire", t.job, <<>>)
           go == /\ t.tok \notin tokCan           \* cancellation_token.is_active
                 /\ IsRunning(s) /\ t.job \in pending
       IN Commit(Observe(v, [s EXCEPT !.timers = IF go THEN (@ \ {t}) \cup {[t EXCEPT !.pc = "go"]}
                                      ELSE @ \ {t}]))

\* ... and its self.__start_job(job)
TimerStart(t, order, v) ==
    /\ t \in timers /\ t.pc = "go"
    /\ LET s == Cur("timer_start", t.job, order)
       IN Commit(Observe(v, StartJob([s EXCEPT !.timers = @ \ {t}], t.job)))

\* ---- the delay thread of SimpleAsyncJob._run: task() after its sleep, the token check
WorkerWake(w, v) ==
    /\ w \in workers /\ w.pc = "sleep"
    /\ LET s == Cur("worker_wake", w.job, <<>>)
       IN Commit(Observe(v, [s EXCEPT !.workers = IF TaskTokenActive(s, w.job, w.ep)
                                       THEN (@ \ {w}) \cup {[w EXCEPT !.pc = "work"]}
                                       ELSE @ \ {w}]))

\* SimpleSyncJob._run on the delay thread: the worker, then _notify_complete
WorkerFire(w, order, v) ==
    /\ w \in workers /\ w.pc = "work"
    /\ LET s == Cur("worker_fire", w.job, order)
           s1 == CallWorker([s EXCEPT !.workers = @ \ {w}], w.job)
       IN Commit(Observe(v, NotifyComplete(s1, w.job, WORKER_RESULT)))

\* the same in the steps another thread can get in between: the worker and
\* _notify_complete's check of the phase, ...
WorkerCall(w, v) ==
    /\ w \in workers /\ w.pc = "work"
    /\ LET s == Cur("worker_call", w.job, <<>>)
           s1 == CallWorker([s EXCEPT !.workers = @ \ {w}], w.job)
       IN Commit(Observe(v, IF ~Ok(s1) THEN s1
                 ELSE IF s1.state[w.job] # RUNNING THEN Raise(s1, "IncorrectJobState")
                 ELSE [s1 EXCEPT !.workers = @ \cup {[w EXCEPT !.pc = "notify"]}]))

\* ... _notify_complete up to the copy of the handlers, ...
WorkerNotify(w, v) ==
    /\ w \in workers /\ w.pc = "notify"
    /\ LET s == Cur("worker_notify", w.job, <<>>)
           s1 == NotifyCompleteBody([s EXCEPT !.workers = @ \ {w}], w.job, WORKER_RESULT)
           c == HandlersCopy(s1, w.job)
       IN Commit(Observe(v, IF ~Ok(s1) THEN s1
                 ELSE [s1 EXCEPT !.workers =
                          @ \cup {[w EXCEPT !.pc = "deliver", !.n = c.n, !.u = c.u]}]))

\* ... and the rest of __notify_all_subscribers
WorkerDeliver(w, order, v) ==
    /\ w \in workers /\ w.pc = "deliver"
    /\ LET s == Cur("worker_deliver", w.job, order)
       IN Commit(Observe(v, NotifyAllSubscribers([s EXCEPT !.workers = @ \ {w}], w.job,
                                      [n |-> w.n, u |-> w.u])))

\* ---- the timeout thread of Job.__start_timeout: task() after its sleep, the token check
GuardWake(g, v) ==
    /\ g \in guards /\ g.pc = "sleep"
    /\ LET s == Cur("guard_wake", g.job, <<>>)
       IN Commit(Observe(v, [s EXCEPT !.guards = IF TimeoutTokenActive(s, g.job, g.ep)
                                      THEN (@ \ {g}) \cup {[g EXCEPT !.pc = "work"]}
                                      ELSE @ \ {g}]))

\* self._notify_error(TIMEOUT_ERROR)
GuardFire(g, order, v) ==
    /\ g \in guards /\ g.pc = "work"
    /\ LET s == Cur("guard_fire", g.job, order)
       IN Commit(Observe(v, NotifyError([s EXCEPT !.guards = @ \ {g}], g.job, TIMEOUT_ERROR)))

\* the same in the steps another thread can get in between: its check of the phase, ...
GuardCall(g, v) ==
    /\ g \in guards /\ g.pc = "work"
    /\ LET s == Cur("guard_call", g.job, <<>>)
           s1 == [s EXCEPT !.guards = @ \ {g}]
       IN Commit(Observe(v, IF s1.state[g.job] # RUNNING THEN Raise(s1, "IncorrectJobState")
                 ELSE [s1 EXCEPT !.guards = @ \cup {[g EXCEPT !.pc = "notify"]}]))

\* ... _notify_error up to the copy of the handlers, ...
GuardNotify(g, v) ==
    /\ g \in guards /\ g.pc = "notify"
    /\ LET s == Cur("guard_notify", g.job, <<>>)
           s1 == NotifyErrorBody([s EXCEPT !.guards = @ \ {g}], g.job, TIMEOUT_ERROR)
           c == HandlersCopy(s1, g.job)
       IN Commit(Observe(v, IF ~Ok(s1) THEN s1
                 ELSE [s1 EXCEPT !.guards =
                          @ \cup {[g EXCEPT !.pc = "deliver", !.n = c.n, !.u = c.u]}]))

\* ... and the rest of __notify_all_subscribers
GuardDeliver(g, order, v) ==
    /\ g \in guards /\ g.pc = "deliver"
    /\ LET s == Cur("guard_deliver", g.job, order)
       IN Commit(Observe(v, NotifyAllSubscribers([s EXCEPT !.guards = @ \ {g}], g.job,
                                      [n |-> g.n, u |-> g.u])))

\* ---- the scheduler with its jobs' threads
Threads ==
    \/ \E t \in timers : TimerFire(t, "quiet")
    \/ \E t \in timers, order \in Orders : TimerStart(t, order, "quiet")
    \/ \E w \in workers : WorkerWake(w, "quiet")
    \/ \E w \in workers, order \in Orders : WorkerFire(w, order, "quiet")
    \/ \E g \in guards : GuardWake(g, "quiet")
    \/ \E g \in guards, order \in Orders : GuardFire(g, order, "quiet")

Next ==
    \/ \E j \in Jobs : \E order \in OrdersWith(j) : DoSchedule(j, order)
    \/ \E order \in Orders : DoSchedulerRun(order)
    \/ \E order \in Orders : DoSchedulerStop(order)
    \/ Tick
    \/ Threads

Spec == Init /\ [][Next]_vars

\* a thread of the program can take a step: a Timer whose interval has elapsed, a
\* delay thread or a timeout thread (each step of a thread ends or advances it, so
\* this is when Threads is enabled)
ThreadsReady ==
    \/ \E t \in timers : t.pc = "go" \/ cfg[t.job].start_at <= now
    \/ workers # {}
    \/ guards # {}

\* the same under fair scheduling: time passes, and a thread the program has started
\* and that can take a step is not held back for ever (Timer and Thread objects run
\* on OS threads) -- weak fairness of Threads, with its enabling condition written
\* out. The caller owes nothing: schedule, run and stop need never happen
SpecFair == Spec /\ WF_vars(Tick) /\ ([]<>(~ThreadsReady) \/ []<><<Threads>>_vars)

\* ------------------------------------------------------------- a job on its own
\* job a without a scheduler: its caller runs, stops, restarts and fails it and
\* registers handlers; b and c are not used
JobProfiles ==
    {Job("sync", n, w, 0, 0) : n \in 0..MaxTries, w \in {"ok", "raise", "once"}}
    \cup {Job("async", n, w, m, 0) : n \in 0..MaxTries, w \in {"ok", "raise"}, m \in {0, 1}}

InitJob ==
    \E p \in JobProfiles :
        InitWith([a |-> WithDeps(p, {}), b |-> WithDeps(SyncOk, {}), c |-> WithDeps(SyncOk, {})],
                 PoolSize)

JRun ==
    /\ ep["a"] < MaxEpisodes \/ state["a"] # PENDING
    /\ Commit(Observe("loud", JobRun(Cur("run", "a", <<>>), "a")))

JRestart ==
    /\ ep["a"] < MaxEpisodes \/ state["a"] \notin {COMPLETED, FAILED}
    /\ Commit(Observe("loud", JobRestart(Cur("restart", "a", <<>>), "a")))

JStop == Commit(Observe("loud", JobStop(Cur("stop", "a", <<>>), "a")))

JMakeFailed == Commit(Observe("loud", MakeFailed(Cur("make_failed", "a", <<>>), "a")))

JAdd(h) == Commit(Observe("loud", AddCompleteHandler(Cur("add", "a", <<>>), "a", h)))

JRemove(h) == Commit(Observe("loud", RemoveCompleteHandler(Cur("remove", "a", <<>>), "a", h)))

JRemoveAll == Commit(Observe("loud", RemoveAllCompleteHandlers(Cur("remove_all", "a", <<>>), "a")))

\* each operation of the job, _notify_complete and _notify_error on their threads
\* among them, as one step
NextJob ==
    \/ JRun
    \/ JStop
    \/ JRestart
    \/ JMakeFailed
    \/ \E h \in UserHandlers : JAdd(h)
    \/ \E h \in UserHandlers : JRemove(h)
    \/ JRemoveAll
    \/ \E w \in workers : WorkerWake(w, "loud")
    \/ \E w \in workers : WorkerFire(w, <<>>, "loud")
    \/ \E g \in guards : GuardWake(g, "loud")
    \/ \E g \in guards : GuardFire(g, <<>>, "loud")

SpecJob == InitJob /\ [][NextJob]_vars

\* a delayed job with a timeout, its threads switching inside _notify_complete and
\* _notify_error
RaceProfiles == {Job("async", n, w, 1, 0) : n \in 1..MaxTries, w \in {"ok", "raise"}}

InitRace ==
    \E p \in RaceProfiles :
        InitWith([a |-> WithDeps(p, {}), b |-> WithDeps(SyncOk, {}), c |-> WithDeps(SyncOk, {})],
                 PoolSize)

NextRace ==
    \/ JRun
    \/ JStop
    \/ JRestart
    \/ \E h \in UserHandlers : JAdd(h)
    \/ \E w \in workers : WorkerWake(w, "loud")
    \/ \E w \in workers : WorkerCall(w, "loud")
    \/ \E w \in workers : WorkerNotify(w, "loud")
    \/ \E w \in workers : WorkerDeliver(w, <<>>, "loud")
    \/ \E g \in guards : GuardWake(g, "loud")
    \/ \E g \in guards : GuardCall(g, "loud")
    \/ \E g \in guards : GuardNotify(g, "loud")
    \/ \E g \in guards : GuardDeliver(g, <<>>, "loud")

SpecJobRace == InitRace /\ [][NextRace]_vars

\* ------------------------------------------------------------- deferred starts
\* a scheduler of synchronous jobs, b with a later start: the only threads are the
\* Timers of __schedule_job_start, whose task() is one step here, and run() may be
\* called once more often
TimerTask(t, order, v) ==
    /\ t \in timers /\ t.pc = "armed"
    /\ cfg[t.job].start_at <= now
    /\ LET s == Cur("timer", t.job, order)
           s1 == [s EXCEPT !.timers = @ \ {t}]
           go == /\ t.tok \notin tokCan           \* cancellation_token.is_active
                 /\ IsRunning(s) /\ t.job \in pending
       IN Commit(Observe(v, IF go THEN StartJob(s1, t.job) ELSE s1))

RunAgain(order) ==
    /\ ntok < MaxTimerRuns
    /\ Commit(Observe("sched", SchedulerRun(Cur("run", "-", order))))

InitTimer ==
    \E c \in Family(PoolSize - 1, {SyncOk, SyncRaise}, SyncLater, SyncOk, {NoDeps, Chain}) :
        InitWith(c.jobs, c.pool_size)

NextTimer ==
    \/ \E j \in Jobs : \E order \in OrdersWith(j) : DoSchedule(j, order)
    \/ \E order \in Orders : RunAgain(order)
    \/ \E order \in Orders : DoSchedulerStop(order)
    \/ Tick
    \/ \E t \in timers, order \in Orders : TimerTask(t, order, "sched")

SpecTimer == InitTimer /\ [][NextTimer]_vars

\* ------------------------------------------------------------- the failure cascade
\* a scheduler that holds three synchronous jobs, a failing when it runs, b and c with
\* any dependency lists over the three: chains, diamonds, cycles, self-dependencies
DependencyLists == [{"b", "c"} -> SUBSET Jobs]

InitCascade ==
    \E d \in DependencyLists :
        InitWith([a |-> WithDeps(SyncRaise, {}), b |-> WithDeps(SyncOk, d["b"]),
                  c |-> WithDeps(SyncOk, d["c"])], PoolSize)

CascadeSchedule(j, order) == Commit(Observe("loud", Schedule(Cur("schedule", j, order), j)))

CascadeRun(order) ==
    /\ ntok < MaxRuns
    /\ Commit(Observe("loud", SchedulerRun(Cur("run", "-", order))))

CascadeStop(order) == Commit(Observe("loud", SchedulerStop(Cur("stop", "-", order))))

NextCascade ==
    \/ \E j \in Jobs : \E order \in OrdersWith(j) : CascadeSchedule(j, order)
    \/ \E order \in Orders : CascadeRun(order)
    \/ \E order \in Orders : CascadeStop(order)

SpecCascade == InitCascade /\ [][NextCascade]_vars

\* ------------------------------------------------------------- utils.py
\* one CancellationToken shared by TokenThreads, each statement that reads or writes
\* a field of the token one step; callbacks return
rest == <<cfg, pool_size, pending, running, completed, failed, token, tokCan, ntok, timers, now,
          state, result, tries, coro, nsub, usub, ep, ttok, tcan, wtok, wcan,
          workers, guards, calls, notified, hcalls, reg, obs>>

TokStep(k) == tk' = k /\ UNCHANGED rest

At(t, pc) == tk.th[t].pc = pc

Goto(k, t, pc) == [k EXCEPT !.th[t].pc = pc]

Return(k, t) == [k EXCEPT !.th[t] = TokIdle]

\* callback(), or f(), on thread t
Invoke(k, c, t) == [k EXCEPT !.count[c] = @ + 1, !.by[c] = t]

\* CancellationToken.is_active
IsActive(k) == ~k.is_canceled /\ ~k.is_completed

\* a variant of on_cancel that does not look again once it holds the lock
OnCancelNoRecheck(k) == TRUE

\* on_cancel: `if not self._is_canceled` before the lock, and again under it
OnCancelFirstCheck(k) == ~k.is_canceled

OnCancelRecheck(k) == ~k.is_canceled

\* on_cancel(callback), up to its first check
TokOnCancel(t) ==
    /\ At(t, "idle") /\ tk.nreg < MaxCallbacks
    /\ LET c == tk.nreg + 1
           k == [tk EXCEPT !.nreg = c, !.regby[c] = t, !.th[t].cb = c]
       IN TokStep(Goto(k, t, IF OnCancelFirstCheck(tk) THEN "oc_lock" ELSE "oc_call"))

\* with self._lock:
TokOnCancelLock(t) ==
    /\ At(t, "oc_lock") /\ tk.lock = "free"
    /\ TokStep(Goto([tk EXCEPT !.lock = t], t, "oc_check"))

\* the second check; leaving the with block releases the lock
TokOnCancelCheck(t) ==
    /\ At(t, "oc_check")
    /\ TokStep(IF OnCancelRecheck(tk) THEN Goto(tk, t, "oc_append")
               ELSE Goto([tk EXCEPT !.lock = "free", !.rechecked = @ \cup {tk.th[t].cb}],
                         t, "oc_call"))

\* self._callbacks.append(callback); return
TokOnCancelAppend(t) ==
    /\ At(t, "oc_append")
    /\ TokStep(Return([tk EXCEPT !.callbacks = Append(@, tk.th[t].cb), !.lock = "free"], t))

\* callback() on the registering thread
TokOnCancelCall(t) ==
    /\ At(t, "oc_call")
    /\ TokStep(Return(Invoke(tk, tk.th[t].cb, t), t))

\* cancel(): with self._lock:
TokCancel(t) ==
    /\ At(t, "idle") /\ tk.lock = "free"
    /\ TokStep(Goto([tk EXCEPT !.lock = t], t, "c_check"))

\* if self._is_canceled: return; self._is_canceled = True
TokCancelCheck(t) ==
    /\ At(t, "c_check")
    /\ TokStep(IF tk.is_canceled THEN Return([tk EXCEPT !.lock = "free"], t)
               ELSE Goto([tk EXCEPT !.is_canceled = TRUE], t, "c_set"))

\* self._is_completed = True, and the end of the with block
TokCancelSet(t) ==
    /\ At(t, "c_set")
    /\ TokStep(Goto([tk EXCEPT !.is_completed = TRUE, !.lock = "free"], t, "c_copy"))

\* [x for x in self._callbacks]
TokCancelCopy(t) ==
    /\ At(t, "c_copy")
    /\ TokStep(Goto([tk EXCEPT !.th[t].copy = tk.callbacks, !.th[t].i = 1], t, "c_loop"))

\* for f in ...: f()
TokCancelInvoke(t) ==
    /\ At(t, "c_loop")
    /\ LET me == tk.th[t]
       IN TokStep(IF me.i > Len(me.copy) THEN Return(tk, t)
                  ELSE [Invoke(tk, me.copy[me.i], t) EXCEPT !.th[t].i = @ + 1,
                                                           !.inv = Append(@, me.copy[me.i])])

\* complete()
TokComplete(t) ==
    /\ At(t, "idle") /\ tk.lock = "free"
    /\ TokStep([tk EXCEPT !.is_completed = TRUE])

\* is_active: `not self._is_canceled` ...
TokIsActive(t) ==
    /\ At(t, "idle")
    /\ TokStep(IF tk.is_canceled THEN [tk EXCEPT !.seen[t] = "false", !.was[t] = FALSE]
               ELSE Goto([tk EXCEPT !.seen[t] = "none", !.was[t] = IsActive(tk)], t, "ia"))

\* ... `and not self._is_completed`
TokIsActiveSecond(t) ==
    /\ At(t, "ia")
    /\ TokStep(Return([tk EXCEPT !.seen[t] = IF tk.is_completed THEN "false" ELSE "true"], t))

InitToken ==
    InitWith([a |-> WithDeps(SyncOk, {}), b |-> WithDeps(SyncOk, {}), c |-> WithDeps(SyncOk, {})],
             PoolSize)

NextToken ==
    \E t \in TokenThreads :
        \/ TokOnCancel(t) \/ TokOnCancelLock(t) \/ TokOnCancelCheck(t)
        \/ TokOnCancelAppend(t) \/ TokOnCancelCall(t)
        \/ TokCancel(t) \/ TokCancelCheck(t) \/ TokCancelSet(t)
        \/ TokCancelCopy(t) \/ TokCancelInvoke(t)
        \/ TokComplete(t)
        \/ TokIsActive(t) \/ TokIsActiveSecond(t)

SpecToken == InitToken /\ [][NextToken]_vars

\* ------------------------------------------------------------- properties of the scheduler
Total == Cardinality(pending) + Cardinality(running)
Known == pending \cup running \cup completed \cup failed

\* C1: in every reachable state, the jobs in pending and the jobs in running are
\* together at most pool_size
C1_PoolBound == Total <= pool_size

\* the pool is full, after a stop() and a second run(), with a job running
C1_FullPool == Total = pool_size /\ running # {} /\ tokCan # {}

\* C2: in every reachable state pending and running are disjoint, completed and
\* failed are disjoint, and no id of completed or failed is in pending or running
C2_Partitions ==
    /\ pending \cap running = {}
    /\ completed \cap failed = {}
    /\ (completed \cup failed) \cap (pending \cup running) = {}

\* a completed job, a failed job and a job still in the pool
C2_AllPartitions == completed # {} /\ failed # {} /\ pending \cup running # {}

\* C3: __start_job moves a job from pending to running only when every id of its
\* dependencies is in completed, on every path (schedule, run, the completion of
\* a dependency, a Timer): no step starts a job otherwise, and every job that was
\* ever run has its dependencies in completed
C3_StartsAfterDependencies ==
    /\ obs.badStart = {}
    /\ \A j \in Jobs : ep[j] > 0 => cfg[j].dependencies \subseteq completed

\* a job with a dependency and a later start was started, by its Timer
C3_TimerStartedDependent ==
    \E j \in Jobs : cfg[j].dependencies # {} /\ cfg[j].start_at > 0 /\ ep[j] > 0

\* C4: once an id is in failed, every job of the pool that depends on it, directly
\* or through other jobs, was moved to failed, FAILED with "Manually failed" and never
\* run, whether it was pending when the id failed or was scheduled later; and
\* make_failed() is only ever called on a job that has a dependency in failed already
C4_CascadedFailure ==
    /\ \A j \in Known : cfg[j].dependencies \cap failed # {} =>
           /\ j \in failed
           /\ state[j] = FAILED /\ result[j] = MANUALLY_FAILED_ERROR /\ ep[j] = 0
    /\ obs.early = {}

\* run() failed a job and with it a job that depends on it and a job that depends on that
C4_TransitiveCascade ==
    /\ obs.op = "run"
    /\ \E j, k \in failed : k \in cfg[j].dependencies /\ cfg[k].dependencies \cap failed # {}
                            /\ result[j] = MANUALLY_FAILED_ERROR

\* C5: a job the scheduler restarted after a failure (the scheduler was never stopped,
\* so a second episode is a restart) has its id in completed once it is COMPLETED,
\* and in failed once it is FAILED with no tries left
C5_RestartedJobSettles ==
    \A j \in Jobs : (tokCan = {} /\ ep[j] >= 2) =>
        /\ state[j] = COMPLETED => j \in completed
        /\ (state[j] = FAILED /\ tries[j] <= 0) => j \in failed

\* C6 (as the spec has it): schedule of a job that is in pending or running, or whose
\* id is in completed or failed, raises JobTwiceScheduling, the pool full or not
C6_TwiceSchedulingAlways ==
    [][(obs'.op = "schedule" /\ obs'.job \in Known) => obs'.exc = "JobTwiceScheduling"]_vars

\* C6: schedule of a job that is in pending or running, or whose id is in completed or
\* failed, raises JobTwiceScheduling if the pool is not full, and PoolSize if it is
C6_TwiceSchedulingUnlessFull ==
    [][(obs'.op = "schedule" /\ obs'.job \in Known) =>
           obs'.exc = IF Total < pool_size THEN "JobTwiceScheduling" ELSE "PoolSize"]_vars

\* schedule refused a job whose id is in completed
C6_RefusedCompleted ==
    obs.op = "schedule" /\ obs.exc = "JobTwiceScheduling" /\ obs.job \in completed

\* C7: schedule raises PoolSize exactly when the jobs in pending and running number
\* pool_size, and a schedule that raises PoolSize or JobTwiceScheduling changes none
\* of pending, running, completed, failed, is_running and the phase of the job
C7_PoolSizeAndNoEffect ==
    [][obs'.op = "schedule" =>
           /\ obs'.exc = "PoolSize" <=> Total = pool_size
           /\ obs'.exc \in {"PoolSize", "JobTwiceScheduling"} =>
                  UNCHANGED <<pending, running, completed, failed, token, state>>]_vars

\* schedule refused a job that the scheduler had never seen, the pool being full
C7_RefusedNewJob ==
    obs.op = "schedule" /\ obs.exc = "PoolSize" /\ obs.job \notin Known /\ token # 0

\* ------------------------------------------------------------- properties of a job
Terminal == {COMPLETED, FAILED}

C9_DisallowedPhase ==
    [][/\ (obs'.op \in {"run", "make_failed"} /\ state["a"] # PENDING)
              => obs'.exc = "IncorrectJobState"
       /\ (obs'.op = "stop" /\ state["a"] # RUNNING) => obs'.exc = "IncorrectJobState"
       /\ (obs'.op = "restart" /\ state["a"] \notin Terminal) => obs'.exc = "IncorrectJobState"
       /\ (obs'.op = "guard_fire" /\ state["a"] # RUNNING) => obs'.exc = "IncorrectJobState"
       /\ (obs'.op = "worker_fire" /\ state["a"] # RUNNING)
              => obs'.exc \in {"IncorrectJobState", "Exception"}    \* or the worker raised
       /\ obs'.exc = "IncorrectJobState"
              => UNCHANGED <<state, result, tries, usub, nsub>>]_vars

\* a second completion in one episode: the worker completed the job, a handler is
\* registered, and the timeout that had passed its check was refused
C9_SecondCompletionRefused ==
    /\ obs.op = "guard_fire" /\ obs.exc = "IncorrectJobState"
    /\ state["a"] = COMPLETED /\ usub["a"] # {} /\ notified["a"] = 1

C11_OncePerRegistration ==
    \A h \in UserHandlers :
        /\ reg[h] \notin {"twice", "late"}
        /\ reg[h] = "none" => hcalls[h] = 0

\* C12: the tries of a job never go up, and a step changes them only by taking one
\* off as it makes the job FAILED: a step that leaves the job COMPLETED, PENDING or
\* RUNNING leaves the tries alone, whatever the order of the worker's and the
\* timeout's steps
C12_TriesOnlyOnFailed ==
    [][\A j \in Jobs : tries'[j] # tries[j] =>
           /\ tries'[j] = tries[j] - 1
           /\ state'[j] = FAILED /\ \E from \in State : <<from, FAILED>> \in obs'.steps]_vars

\* C13: the tries of a job are never below 0, and a job that run() or restart()
\* failed with "No tries left" has its tries at 0
C13_TriesNeverNegative ==
    \A j \in Jobs :
        /\ tries[j] >= 0
        /\ (state[j] = FAILED /\ result[j] = NO_TRIES_LEFT_ERROR) => tries[j] = 0

\* C14: stop() on a running scheduler leaves is_running false and running empty, has
\* every job that was in running in pending, PENDING and without handlers, and
\* changes neither total_jobs_amount nor completed nor failed
C14_StopRepends ==
    [][(obs'.op = "stop" /\ token # 0) =>
           /\ token' = 0 /\ running' = {}
           /\ \A j \in running :
                  j \in pending' /\ state'[j] = PENDING /\ nsub'[j] = 0 /\ usub'[j] = {}
           /\ Total' = Total
           /\ UNCHANGED <<completed, failed>>]_vars

\* C15: a step in which the worker function of a RUNNING job (or of a job being run)
\* is called and raises leaves the job FAILED with "Internal job error", notified,
\* be the worker called inside run() or on the delay thread
C15_WorkerErrorFailsJob ==
    [][\A j \in Jobs :
           (/\ calls'[j] = calls[j] + 1
            /\ cfg[j].worker = "raise" \/ (cfg[j].worker = "once" /\ calls[j] = 0)
            /\ obs'.op = "worker_fire" => state[j] = RUNNING)
           => state'[j] = FAILED /\ result'[j] = INTERNAL_JOB_ERROR /\ notified'[j] = 1]_vars

\* C16: the expiry of a timeout guard whose episode has ended (the job has been run
\* again since, or is no longer RUNNING) changes neither the phase, the result, the
\* try budget nor the subscribers of the job
C16_StaleGuardIsNoOp ==
    [][\A g \in guards :
           (/\ obs'.op = "guard_fire" /\ g.pc = "work" /\ g \notin guards'
            /\ g.ep # ep[g.job] \/ state[g.job] # RUNNING)
           => UNCHANGED <<state, result, tries, nsub, usub>>]_vars

\* C17: the delay worker of an episode whose task token has been cancelled, as stop()
\* does, changes neither the phase nor the result of the job and invokes no handler
\* when it fires, be the job still PENDING or run again
C17_StoppedWorkerIsNoOp ==
    [][\A w \in workers :
           (/\ obs'.op = "worker_fire" /\ w.pc = "work" /\ w \notin workers'
            /\ w.ep \in wcan[w.job])
           => UNCHANGED <<state, result, hcalls, nsub, usub>>]_vars

\* C18: a step taken while the scheduler is not running, before the first run() and
\* after each stop(), starts no episode of any job and leaves running empty
C18_NothingRunsWhileStopped ==
    [][(token = 0 /\ token' = 0) =>
           /\ running' = {}
           /\ \A j \in Jobs : ep'[j] = ep[j]]_vars

\* C19: a pending job whose dependencies are all completed and whose start_at has
\* passed, in a running scheduler, is eventually out of pending (started), unless the
\* scheduler is stopped
C19_EligibleJobStarts ==
    \A j \in Jobs :
        (/\ token # 0 /\ j \in pending
         /\ cfg[j].dependencies \subseteq completed /\ cfg[j].start_at <= now)
        ~> (j \notin pending \/ token = 0)

\* C20: a deferred-start timer armed before a stop() (a token no older than the
\* one it captured has been cancelled since) starts no job when it fires
C20_StoppedTimerStartsNothing ==
    [][\A t \in timers :
           (/\ obs'.op = "timer" /\ t \notin timers'
            /\ \E k \in tokCan : k >= t.tok)
           => UNCHANGED <<pending, running, completed, failed, ep, state>>]_vars

\* C21: a job with a dependency in failed, and a job that make_failed() has failed
\* (by the cascade, or by schedule finding a failed dependency), has never been run
\* or restarted and has the try budget it was constructed with; the latter is FAILED
C21_AutoFailedNeverRetried ==
    \A j \in Jobs :
        /\ (cfg[j].dependencies \cap failed # {} \/ result[j] = MANUALLY_FAILED_ERROR)
               => ep[j] = 0 /\ tries[j] = cfg[j].tries /\ state[j] \in {PENDING, FAILED}
        /\ result[j] = MANUALLY_FAILED_ERROR => state[j] = FAILED

\* b, with its whole budget of tries left, has been failed by the cascade from a
C21_CascadedWithBudget ==
    /\ "a" \in failed /\ "b" \in failed /\ "a" \in cfg["b"].dependencies
    /\ result["b"] = MANUALLY_FAILED_ERROR /\ tries["b"] = MaxTries /\ ep["b"] = 0
    /\ obs.op = "run"

\* C22: a job that has been started (it has had an episode, or is in running or
\* completed) has a start_at that is not later than the clock; while the clock is
\* before its start_at the job has not been moved out of pending by a start
C22_NotBeforeStartAt ==
    \A j \in Jobs :
        (ep[j] > 0 \/ j \in running \/ j \in completed \/ state[j] \in {RUNNING, COMPLETED})
            => cfg[j].start_at <= now

\* start-if-ready found b not yet due in a running scheduler: b is still in pending
\* and a timer under the current token is armed for it
C22_WaitingForStartAt ==
    /\ cfg["b"].start_at > now /\ token # 0
    /\ "b" \in pending /\ state["b"] = PENDING /\ ep["b"] = 0
    /\ [job |-> "b", tok |-> token, pc |-> "armed"] \in timers

\* C23: no step starts a job that is in running (moves it there a second time and
\* calls run() on it again), and no job is in pending and in running at once, so
\* that a second start needs a new stay in pending
C23_StartedOncePerStay ==
    /\ obs.twice = {}
    /\ pending \cap running = {}

\* in a diamond, the completion of a reached c a second time after the completion of
\* b had started it: the second start was refused (KeyError at pending.remove) after
\* it had registered its handler, and c has had one episode
C23_SecondStartRefused ==
    /\ cfg["c"].dependencies = {"a", "b"}
    /\ "c" \in completed /\ ep["c"] = 1 /\ nsub["c"] = 1
    /\ obs.exc = "IncorrectJobState"

\* the callbacks registered so far, those in the list, and whether no thread is in a call
Registered == 1..tk.nreg
Listed == {tk.callbacks[i] : i \in DOMAIN tk.callbacks}
Quiet == \A t \in TokenThreads : At(t, "idle")

\* C24: under every interleaving of on_cancel, cancel, complete and is_active calls
\* of the threads, no callback is invoked twice and none before cancel; cancel()
\* invokes the listed callbacks in registration order on its own thread, a callback
\* registered after it is invoked by the registering thread; once every call has
\* returned after a cancel, each registered callback has been invoked exactly once;
\* cancel sets both flags; is_active returns true only if the token was active when
\* asked and false only if it is cancelled or completed
C24_CallbacksExactlyOnce ==
    /\ \A c \in Callbacks : tk.count[c] <= 1
    /\ ~tk.is_canceled => \A c \in Callbacks : tk.count[c] = 0
    /\ Len(tk.inv) <= Len(tk.callbacks) /\ tk.inv = SubSeq(tk.callbacks, 1, Len(tk.inv))
    /\ \A c \in Registered :
           tk.count[c] = 1 =>
               IF c \in Listed
               THEN \E i \in DOMAIN tk.inv : tk.inv[i] = c
               ELSE tk.by[c] = tk.regby[c]
    /\ \A c, d \in Listed : tk.count[c] = 1 /\ tk.count[d] = 1 => tk.by[c] = tk.by[d]
    /\ (Quiet /\ tk.is_canceled) =>
           /\ tk.is_completed
           /\ \A c \in Registered : tk.count[c] = 1
    /\ \A t \in TokenThreads :
           /\ tk.seen[t] = "true" => tk.was[t]
           /\ tk.seen[t] = "false" => ~IsActive(tk)

\* a cancel() ran between the two checks of an on_cancel: callback 1 was in the list
\* and cancel() invoked it, callback 2 was found cancelled under the lock and its own
\* thread invoked it, while a second cancel() and an is_active call went by
C24_CancelBetweenChecks ==
    /\ Quiet /\ tk.is_canceled
    /\ tk.callbacks = <<1>> /\ tk.count[1] = 1 /\ tk.inv = <<1>>
    /\ 2 \in tk.rechecked /\ tk.count[2] = 1 /\ tk.by[2] = tk.regby[2] /\ tk.by[2] # tk.by[1]
    /\ \E t \in TokenThreads : tk.seen[t] = "false"

\* C25: between the steps of the scheduler and of its threads every job in running
\* is RUNNING, every job in pending is PENDING, and a job that has been started and
\* is COMPLETED or FAILED is in neither collection
C25_PhasesMatchCollections ==
    \A j \in Jobs :
        /\ j \in running => state[j] = RUNNING
        /\ j \in pending => state[j] = PENDING
        /\ (ep[j] > 0 /\ state[j] \in Terminal) => j \notin pending \cup running

\* C26: in every step (each one ends: its cascade has finished) no job has been
\* make_failed()ed more than once and no job's id has been added to failed more than
\* once, whatever the dependency lists: chains, diamonds, cycles, self-dependencies
C26_CascadeMarksOnce ==
    \A j \in Jobs : obs.marks[j] <= 1 /\ obs.fadds[j] <= 1

\* one cascade went round a cycle: b and c depend on each other, c also on itself, b
\* on a; a failed in run() and the cascade failed b and c, each once
C26_CascadeRoundCycle ==
    /\ cfg["b"].dependencies = {"a", "c"} /\ cfg["c"].dependencies = {"b", "c"}
    /\ obs.op = "run" /\ failed = {"a", "b", "c"} /\ pending = {}
    /\ obs.marks = [a |-> 0, b |-> 1, c |-> 1]
    /\ obs.fadds = [a |-> 1, b |-> 1, c |-> 1]

====
